---- MODULE Spec2Model ----
(***************************************************************************)
(* Model of the blog engine's generation / audit / fix pipeline            *)
(* (blog_engine.py) and of the review dashboard's handlers (dashboard.py). *)
(*                                                                         *)
(* Texts (model responses, documents, titles, slugs) are sequences of      *)
(* tokens; a token stands for a piece of text the code's regular           *)
(* expressions treat as a unit (a brace, a run of prose); "<fence html>",   *)
(* "<fence json>" and "<fence>" are the markdown fence lines (three        *)
(* backquotes, with or without a language label).                          *)
(* A file is the text it holds, or NoFile when it does not exist.          *)
(***************************************************************************)
EXTENDS Integers, Sequences, FiniteSets, TLC

VARIABLES
    pregen,        \* PRE_GENERATED_DIR: slug -> document or NoFile (read-only)
    draftDoc,      \* DRAFTS_DIR/{slug}.html
    draftAudit,    \* DRAFTS_DIR/{slug}_audit.json
    draftCard,     \* DRAFTS_DIR/{slug}_card.html exists
    draftSitemap,  \* DRAFTS_DIR/{slug}_sitemap.xml exists
    draftSocial,   \* DRAFTS_DIR/{slug}_social.json exists
    approved,      \* APPROVED_DIR/{slug}.html
    remote,        \* the GitHub repository: {slug}.html -> content or NoFile
    approvedEver,  \* slugs a human has approved (approve / approve_and_deploy)
    pc,            \* per worker thread: position in _run_pipeline
    slug,          \* per worker thread: post["slug"]
    html,          \* per worker thread: the local html
    audit,         \* per worker thread: the local audit
    calls,         \* per worker thread: the call_claude calls of the run, in order
    requests,      \* number of review-surface requests handled so far
    notice,        \* what became of the latest draft notification
    api,           \* a call_claude call looked at on its own, or NoCall
    selection,     \* per worker thread: what select_hero_image returned, and
                   \* its locals category and used_images
    alerts,        \* alerts/{alert_id}.json: the alert's status, the
                   \* requests past the checks of generate_alert, and the
                   \* run() threads at work on the alert
    push           \* per worker thread: the locals of push_to_github or
                   \* update_blog_index, and what the last call returned

vars == <<pregen, draftDoc, draftAudit, draftCard, draftSitemap, draftSocial,
          approved, remote, approvedEver, pc, slug, html, audit, calls, requests,
          notice, api, selection, alerts, push>>

stores == <<draftDoc, draftAudit, draftCard, draftSitemap, draftSocial, approved>>
locals == <<pc, slug, html, audit, calls>>

\* a file that does not exist / a local not yet assigned
NoFile == <<"<absent>">>
NoAudit == [type |-> "absent"]
NoSlug == <<>>
\* the None returned by the slot resolvers
NoPost == [slug |-> NoSlug, day |-> "none"]
\* no image has been selected
NoImage == [id |-> "none", url |-> "<none>", themes |-> {}]
NoSelection == [image |-> NoImage, category |-> "none", used |-> {}]
\* no alert file of that id, and no thread at work on it
NoAlert == [status |-> "absent", passed |-> 0, threads |-> 0]
\* md5(headline)[:12] of the headlines the news monitor may report
AlertIds == {"alert-1", "alert-2", "alert-3"}
\* no call of push_to_github or update_blog_index has been made
NoPush == [phase |-> "idle", path |-> NoSlug, content |-> NoFile, seen |-> NoFile,
           result |-> FALSE]
\* no call_claude call is being looked at
NoCall == [result |-> "none", response |-> <<>>]

-----------------------------------------------------------------------------
(* Bounds *)

\* Review-surface requests handled in one behaviour.
MaxRequests == 1

\* The scheduler's job runs on the thread Cron; /trigger/blog and
\* /trigger/custom start the worker threads of TriggerThreads. Each thread
\* makes one pipeline run.
Cron == 0
TriggerThreads == {1}
Threads == {Cron} \cup TriggerThreads

-----------------------------------------------------------------------------
(* Sequence helpers *)

Min(a, b) == IF a < b THEN a ELSE b

\* text[:n]
Prefix(text, n) == SubSeq(text, 1, Min(Len(text), n))

\* the tokens of text that are not in drop, in order
Without(text, drop) ==
    LET Kept(tok) == tok \notin drop
    IN SelectSeq(text, Kept)

Positions(text, toks) == {i \in 1..Len(text) : text[i] \in toks}
FirstOf(S) == CHOOSE i \in S : \A j \in S : i <= j
LastOf(S) == CHOOSE i \in S : \A j \in S : j <= i

-----------------------------------------------------------------------------
(* Calendar and slugs *)

\* content_calendar.json: the posts, in calendar order
Calendar == <<
    [slug |-> <<"blog-", "x">>, day |-> "monday"],
    [slug |-> <<"blog-", "y">>, day |-> "wednesday"] >>

\* Titles submitted to /trigger/custom. "Y" is an upper-case letter, "y" its
\* lower case, "!" a run of characters outside [a-z0-9].
Titles == { <<"Y">>, <<"y", "!">> }

Lower(c) == IF c = "Y" THEN "y" ELSE IF c = "X" THEN "x" ELSE c
IsAlnum(c) == c \in {"x", "y", "z"}

\* re.sub(r'[^a-z0-9]+', '-', title.lower()): every run of other characters
\* becomes one '-'
RECURSIVE Dashed(_)
Dashed(title) ==
    IF title = <<>> THEN <<>>
    ELSE LET c == Lower(Head(title))
             rest == Dashed(Tail(title))
         IN IF IsAlnum(c) THEN <<c>> \o rest
            ELSE IF rest # <<>> /\ Head(rest) = "-" THEN rest
            ELSE <<"-">> \o rest

\* .strip('-')
RECURSIVE StripDash(_)
StripDash(s) ==
    IF s # <<>> /\ Head(s) = "-" THEN StripDash(Tail(s))
    ELSE IF s # <<>> /\ s[Len(s)] = "-" THEN StripDash(SubSeq(s, 1, Len(s) - 1))
    ELSE s

\* run_custom_pipeline: slug = "blog-" + re.sub(...).strip('-')[:80]
CustomSlug(title) == <<"blog-">> \o Prefix(StripDash(Dashed(title)), 80)

CalendarSlugs == {Calendar[i].slug : i \in 1..Len(Calendar)}
Slugs == CalendarSlugs \cup {CustomSlug(t) : t \in Titles}

-----------------------------------------------------------------------------
(* Documents *)

DocStart == {"<!DOCTYPE html", "<!doctype html"}
DocEnd == {"</html>", "</HTML>"}
HtmlFences == {"<fence html>", "<fence>"}

\* re.search(r"(<!DOCTYPE html.*</html>)", text, DOTALL | IGNORECASE):
\* from the first document-start marker to the last document-end marker
HasHtmlMatch(text) ==
    /\ Positions(text, DocStart) # {}
    /\ \E j \in Positions(text, DocEnd) : j > FirstOf(Positions(text, DocStart))
HtmlMatch(text) ==
    SubSeq(text, FirstOf(Positions(text, DocStart)), LastOf(Positions(text, DocEnd)))

\* the two re.sub calls that remove the markdown fence lines
StripHtmlFences(text) == Without(text, HtmlFences)

\* an extraction that stops at the first document-end marker
NormalizeGeneratedToFirstEnd(response) ==
    LET t == StripHtmlFences(response)
        start == FirstOf(Positions(t, DocStart))
    IN IF HasHtmlMatch(t)
       THEN SubSeq(t, start, FirstOf({j \in Positions(t, DocEnd) : j > start}))
       ELSE t

\* pass1_generate, after call_claude returned response
NormalizeGenerated(response) ==
    LET t == StripHtmlFences(response)
    IN IF HasHtmlMatch(t) THEN HtmlMatch(t) ELSE t

\* a Fix that returns what the service answered when no document is in it
NormalizeFixedUnchecked(response, original) ==
    LET t == StripHtmlFences(response)
    IN IF HasHtmlMatch(t) THEN HtmlMatch(t) ELSE t

\* pass3_fix, after call_claude returned response; original is the html passed in
NormalizeFixed(response, original) ==
    LET t == StripHtmlFences(response)
    IN IF HasHtmlMatch(t) THEN HtmlMatch(t) ELSE original

GeneratedDoc == <<"<!DOCTYPE html", "body", "</html>">>
FixedDoc == <<"<!DOCTYPE html", "fixed body", "</html>">>
PreAuthoredDoc == <<"<!DOCTYPE html", "pre-authored body", "</html>">>
EditedDoc == <<"<!DOCTYPE html", "edited body", "</html>">>

\* what the generation service may answer to the Generate call
GenerateResponses == {
    GeneratedDoc,
    <<"<fence html>", "prose">> \o GeneratedDoc \o <<"prose", "<fence>">> }

\* what the generation service may answer to the Fix call
FixResponses == {
    FixedDoc,
    <<"prose">> \o FixedDoc,
    <<"prose">> }

\* request.form.get("html", ""): the empty string, or an edited document
FormHtml == { <<>>, EditedDoc }

-----------------------------------------------------------------------------
(* JSON values and the audit report parser of pass2_audit *)

JsonFences == {"<fence json>", "<fence>"}

\* the "key": value members the sample responses use
FieldKey(tok) ==
    CASE tok \in {"grade A", "grade B", "grade F"} -> "overall_grade"
      [] tok \in {"ready true", "ready false"} -> "publish_ready"
      [] tok \in {"critical 0", "critical 1"} -> "critical_issues"
      [] tok \in {"warnings 1"} -> "warnings"
FieldValue(tok) ==
    CASE tok = "grade A" -> "A"
      [] tok = "grade B" -> "B"
      [] tok = "grade F" -> "F"
      [] tok = "ready true" -> TRUE
      [] tok = "ready false" -> FALSE
      [] tok = "critical 0" -> <<>>
      [] tok = "critical 1" -> <<"issue">>
      [] tok = "warnings 1" -> <<"minor">>
FieldTokens == {"grade A", "grade B", "grade F", "ready true", "ready false",
                "critical 0", "critical 1", "warnings 1"}

\* json.loads raised JSONDecodeError
DecodeError == [type |-> "JSONDecodeError"]
\* json.loads("null") is None
JsonNull == [type |-> "null"]

\* a JSON object: the dict of its members
JsonObject(members) ==
    [type |-> "object",
     val |-> [k \in {FieldKey(m) : m \in members} |->
                FieldValue(CHOOSE m \in members : FieldKey(m) = k)]]

\* where the members of an object opened before position i end: the position
\* after the closing brace, or 0
RECURSIVE MembersEnd(_, _)
MembersEnd(text, i) ==
    IF i > Len(text) THEN 0
    ELSE IF text[i] = "}" THEN i + 1
    ELSE IF text[i] \in FieldTokens THEN MembersEnd(text, i + 1)
    ELSE 0

\* the JSON decoder's scan: the position after the value that starts at
\* position i (ValueEnd), and after the elements and the closing bracket of
\* an array opened before position i (ElementsEnd), or 0 where the text is
\* no JSON
RECURSIVE ValueEnd(_, _), ElementsEnd(_, _)
ValueEnd(text, i) ==
    IF i > Len(text) THEN 0
    ELSE IF text[i] \in {"null", "7"} THEN i + 1
    ELSE IF text[i] = "{" THEN MembersEnd(text, i + 1)
    ELSE IF text[i] = "[" THEN ElementsEnd(text, i + 1)
    ELSE 0
ElementsEnd(text, i) ==
    IF i > Len(text) THEN 0
    ELSE IF text[i] = "]" THEN i + 1
    ELSE LET e == ValueEnd(text, i)
         IN IF e = 0 THEN 0 ELSE ElementsEnd(text, e)

\* json.loads(text): the value of a text that is one JSON value, else
\* JSONDecodeError
json_loads(text) ==
    IF ValueEnd(text, 1) # Len(text) + 1 THEN DecodeError
    ELSE IF text[1] = "{"
         THEN JsonObject({text[k] : k \in 2..(Len(text) - 1)})
    ELSE IF text[1] = "[" THEN [type |-> "array"]
    ELSE IF text[1] = "7" THEN [type |-> "number"]
    ELSE JsonNull

Parsed(v) == v # DecodeError /\ v # JsonNull

\* Strategy 1: re.search(r'```json?\s*\n?(.*?)\n?\s*```', raw, DOTALL), then
\* json.loads of group 1
Strategy1(raw) ==
    LET opens == {i \in Positions(raw, {"<fence json>"}) :
                     \E j \in Positions(raw, JsonFences) : j > i}
    IN IF opens = {} THEN DecodeError
       ELSE LET i == FirstOf(opens)
                j == FirstOf({k \in Positions(raw, JsonFences) : k > i})
            IN json_loads(SubSeq(raw, i + 1, j - 1))

\* Strategy 2: re.search(r'\{.*\}', raw, DOTALL), then json.loads of the match
Strategy2(raw) ==
    LET opens == Positions(raw, {"{"})
        closes == Positions(raw, {"}"})
    IN IF opens = {} \/ closes = {} \/ LastOf(closes) < FirstOf(opens)
       THEN DecodeError
       ELSE json_loads(SubSeq(raw, FirstOf(opens), LastOf(closes)))

\* Strategy 3: the fence lines removed, then json.loads of what is left
Strategy3(raw) == json_loads(Without(raw, JsonFences))

\* raw[:3000]
RawLimit == 3000

\* a fallback report that keeps the whole response
FallbackAuditUncut(raw) ==
    [type |-> "object",
     val |-> [overall_grade |-> "UNKNOWN",
              publish_ready |-> FALSE,
              critical_issues |-> <<>>,
              warnings |-> <<"Audit response could not be parsed as JSON">>,
              suggestions |-> <<>>,
              raw_response |-> raw]]

\* a fallback report whose synthetic entry is a critical issue
FallbackAuditCritical(raw) ==
    [type |-> "object",
     val |-> [overall_grade |-> "UNKNOWN",
              publish_ready |-> FALSE,
              critical_issues |-> <<"Audit response could not be parsed as JSON">>,
              warnings |-> <<>>,
              suggestions |-> <<>>,
              raw_response |-> Prefix(raw, RawLimit)]]

\* the report pass2_audit builds when nothing parsed
FallbackAudit(raw) ==
    [type |-> "object",
     val |-> [overall_grade |-> "UNKNOWN",
              publish_ready |-> FALSE,
              critical_issues |-> <<>>,
              warnings |-> <<"Audit response could not be parsed as JSON">>,
              suggestions |-> <<>>,
              raw_response |-> Prefix(raw, RawLimit)]]

\* a parser that looks for the braces before it looks for the fence
pass2_audit_braces_first(raw) ==
    IF Parsed(Strategy2(raw)) THEN Strategy2(raw)
    ELSE IF Parsed(Strategy1(raw)) THEN Strategy1(raw)
    ELSE IF Parsed(Strategy3(raw)) THEN Strategy3(raw)
    ELSE FallbackAudit(raw)

\* pass2_audit, after call_claude returned raw
pass2_audit(raw) ==
    IF Parsed(Strategy1(raw)) THEN Strategy1(raw)
    ELSE IF Parsed(Strategy2(raw)) THEN Strategy2(raw)
    ELSE IF Parsed(Strategy3(raw)) THEN Strategy3(raw)
    ELSE FallbackAudit(raw)

\* dict.get(key, default); on a value that is no dict Python raises
\* AttributeError, which IsDict tells
IsDict(v) == v.type = "object"
Get(v, key, default) == IF key \in DOMAIN v.val THEN v.val[key] ELSE default

\* the truth value of audit.get("critical_issues")
HasCritical(v) == Get(v, "critical_issues", <<>>) # <<>>

\* what the generation service may answer to the Audit call in a run: a
\* fenced report, a report inside prose, a truncated report, a fenced array
AuditResponses == {
    <<"<fence json>", "{", "grade A", "ready true", "critical 1", "}", "<fence>">>,
    <<"prose", "{", "grade F", "ready false", "critical 0", "}", "prose">>,
    <<"{", "grade A", "critical 1">>,
    <<"<fence json>", "[", "]", "<fence>">> }

-----------------------------------------------------------------------------
(* Slot resolver *)

HasDraft(s) == draftDoc[s] # NoFile
HasApproved(s) == approved[s] # NoFile

\* the loop of get_next_ungenerated_post, from calendar position i on
RECURSIVE NextUngeneratedFrom(_)
NextUngeneratedFrom(i) ==
    IF i > Len(Calendar) THEN NoPost
    ELSE IF ~HasDraft(Calendar[i].slug) /\ ~HasApproved(Calendar[i].slug)
         THEN Calendar[i]
         ELSE NextUngeneratedFrom(i + 1)

\* a resolver that looks in the drafts folder only
get_next_without_draft ==
    LET open == {i \in 1..Len(Calendar) : ~HasDraft(Calendar[i].slug)}
    IN IF open = {} THEN NoPost ELSE Calendar[FirstOf(open)]

\* a resolver that returns the last post without a document
get_last_ungenerated_post ==
    LET open == {i \in 1..Len(Calendar) :
                   ~HasDraft(Calendar[i].slug) /\ ~HasApproved(Calendar[i].slug)}
    IN IF open = {} THEN NoPost
       ELSE Calendar[CHOOSE i \in open : \A j \in open : j <= i]

get_next_ungenerated_post == NextUngeneratedFrom(1)

\* today.strftime("%A").lower()
Weekdays == {"monday", "tuesday", "wednesday", "thursday", "friday",
             "saturday", "sunday"}

\* the keys of day_map
day_map == {"monday", "wednesday", "friday"}

\* the loop of get_next_scheduled_post, from calendar position i on
RECURSIVE NextScheduledFrom(_, _)
NextScheduledFrom(i, day_name) ==
    IF i > Len(Calendar) THEN NoPost
    ELSE IF /\ Calendar[i].day = day_name
            /\ ~HasDraft(Calendar[i].slug) /\ ~HasApproved(Calendar[i].slug)
         THEN Calendar[i]
         ELSE NextScheduledFrom(i + 1, day_name)

\* a resolver that does not look at the posts' day
get_next_scheduled_any_day(day_name) ==
    IF day_name \notin day_map THEN NoPost ELSE NextUngeneratedFrom(1)

\* get_next_scheduled_post(calendar) on a day whose name is day_name
get_next_scheduled_post(day_name) ==
    IF day_name \notin day_map THEN NoPost ELSE NextScheduledFrom(1, day_name)

-----------------------------------------------------------------------------
(* Initial state: empty drafts and approved folders, nothing published, no  *)
(* run in progress; the first calendar post may have a pre-authored         *)
(* document.                                                                *)

\* the slugs an author may have left a file for in pregen/
PreAuthoredSlugs == {Calendar[1].slug}

Init ==
    /\ pregen \in {f \in [Slugs -> {NoFile, PreAuthoredDoc}] :
                     \A s \in Slugs \ PreAuthoredSlugs : f[s] = NoFile}
    /\ draftDoc = [s \in Slugs |-> NoFile]
    /\ draftAudit = [s \in Slugs |-> NoAudit]
    /\ draftCard = [s \in Slugs |-> FALSE]
    /\ draftSitemap = [s \in Slugs |-> FALSE]
    /\ draftSocial = [s \in Slugs |-> FALSE]
    /\ approved = [s \in Slugs |-> NoFile]
    /\ remote = [s \in Slugs |-> NoFile]
    /\ approvedEver = {}
    /\ pc = [t \in Threads |-> "idle"]
    /\ slug = [t \in Threads |-> NoSlug]
    /\ html = [t \in Threads |-> NoFile]
    /\ audit = [t \in Threads |-> NoAudit]
    /\ calls = [t \in Threads |-> <<>>]
    /\ requests = 0
    /\ notice = "none"
    /\ selection = [t \in Threads |-> NoSelection]
    /\ alerts = [id \in AlertIds |-> NoAlert]
    /\ push = [t \in Threads |-> NoPush]
    /\ api = NoCall

-----------------------------------------------------------------------------
(* Pipeline runs: _run_pipeline on a thread *)

Free(t) == pc[t] = "idle"
Running(t) == pc[t] \notin {"idle", "done", "aborted"}

\* is_pre_generated = pre_gen_path.exists(); the pre-generated folder is not
\* written by the program
is_pre_generated(t) == pregen[slug[t]] # NoFile

\* the thread's run is over: its locals are gone
EndRun(t, how) ==
    /\ pc' = [pc EXCEPT ![t] = how]
    /\ slug' = [slug EXCEPT ![t] = NoSlug]
    /\ html' = [html EXCEPT ![t] = NoFile]
    /\ audit' = [audit EXCEPT ![t] = NoAudit]
    /\ calls' = [calls EXCEPT ![t] = <<>>]

\* an exception leaves _run_pipeline; the thread's wrapper prints it
Abort(t) == EndRun(t, "aborted")

\* _run_pipeline(post, calendar) up to the choice between the pre-generated
\* file, which is loaded, and Pass 1
StartRun(t, s) ==
    /\ Free(t)
    /\ slug' = [slug EXCEPT ![t] = s]
    /\ IF pregen[s] # NoFile
       THEN /\ html' = [html EXCEPT ![t] = pregen[s]]
            /\ pc' = [pc EXCEPT ![t] = "save"]
       ELSE /\ html' = html
            /\ pc' = [pc EXCEPT ![t] = "generate"]
    /\ UNCHANGED <<pregen, push, alerts, selection, api, notice, stores, remote, approvedEver, audit, calls, requests>>

\* run_scheduled_pipeline / run_manual_pipeline
RunNextUngenerated(t) ==
    IF get_next_ungenerated_post = NoPost
    THEN /\ Free(t)
         /\ EndRun(t, "done")
         /\ UNCHANGED <<pregen, push, alerts, selection, api, notice, stores, remote, approvedEver, requests>>
    ELSE StartRun(t, get_next_ungenerated_post.slug)

\* the scheduler's blog_generation job (one instance at a time)
Scheduled == RunNextUngenerated(Cron)

\* GET /trigger/blog
TriggerBlog(t) == RunNextUngenerated(t)

\* POST /trigger/custom
TriggerCustom(t, title) ==
    /\ title # <<>>
    /\ StartRun(t, CustomSlug(title))

\* Pass 1: pass1_generate returned, and the initial draft is saved
GenerateReturns(t, response) ==
    /\ pc[t] = "generate"
    /\ LET generated == NormalizeGenerated(response)
       IN /\ html' = [html EXCEPT ![t] = generated]
          /\ draftDoc' = [draftDoc EXCEPT ![slug[t]] = generated]
    /\ calls' = [calls EXCEPT ![t] = Append(@, "generate")]
    /\ pc' = [pc EXCEPT ![t] = "audit"]
    /\ UNCHANGED <<pregen, push, alerts, selection, api, notice, draftAudit, draftCard, draftSitemap, draftSocial,
                   approved, remote, approvedEver, slug, audit, requests>>

\* a failing Pass 1 that leaves a partial document in the drafts folder
GenerateRaisesLeavingPartial(t) ==
    /\ pc[t] = "generate"
    /\ draftDoc' = [draftDoc EXCEPT ![slug[t]] = <<"<!DOCTYPE html">>]
    /\ Abort(t)
    /\ UNCHANGED <<pregen, push, alerts, selection, api, notice, draftAudit, draftCard, draftSitemap,
                   draftSocial, approved, remote, approvedEver, requests>>

\* Pass 1: call_claude raised
GenerateRaises(t) ==
    /\ pc[t] = "generate"
    /\ Abort(t)
    /\ UNCHANGED <<pregen, push, alerts, selection, api, notice, stores, remote, approvedEver, requests>>

\* Pass 1 skipped: the pre-generated html is saved as the initial draft
SavePreGenerated(t) ==
    /\ pc[t] = "save"
    /\ draftDoc' = [draftDoc EXCEPT ![slug[t]] = html[t]]
    /\ pc' = [pc EXCEPT ![t] = "audit"]
    /\ UNCHANGED <<pregen, push, alerts, selection, api, notice, draftAudit, draftCard, draftSitemap, draftSocial,
                   approved, remote, approvedEver, slug, html, audit, calls,
                   requests>>

\* a gate on the report's verdict instead of its critical issues
AfterAuditByVerdict(t, a) ==
    IF ~Get(a, "publish_ready", FALSE) /\ ~is_pre_generated(t)
    THEN "fix" ELSE "finalize"

\* where the run goes once the first audit is saved
AfterAudit(t, a) ==
    IF HasCritical(a) /\ ~is_pre_generated(t) THEN "fix" ELSE "finalize"

\* Pass 2: pass2_audit returned; the report is saved, then read with .get
AuditReturns(t, raw) ==
    /\ pc[t] = "audit"
    /\ LET a == pass2_audit(raw)
       IN /\ draftAudit' = [draftAudit EXCEPT ![slug[t]] = a]
          /\ IF IsDict(a)
             THEN /\ audit' = [audit EXCEPT ![t] = a]
                  /\ calls' = [calls EXCEPT ![t] = Append(@, "audit")]
                  /\ pc' = [pc EXCEPT ![t] = AfterAudit(t, a)]
                  /\ UNCHANGED <<slug, html>>
             ELSE Abort(t)
    /\ UNCHANGED <<pregen, push, alerts, selection, api, notice, draftDoc, draftCard, draftSitemap, draftSocial,
                   approved, remote, approvedEver, requests>>

\* Pass 2: call_claude raised
AuditRaises(t) ==
    /\ pc[t] = "audit"
    /\ Abort(t)
    /\ UNCHANGED <<pregen, push, alerts, selection, api, notice, stores, remote, approvedEver, requests>>

\* Pass 3: pass3_fix returned; the draft is overwritten
FixReturns(t, response) ==
    /\ pc[t] = "fix"
    /\ LET fixed == NormalizeFixed(response, html[t])
       IN /\ html' = [html EXCEPT ![t] = fixed]
          /\ draftDoc' = [draftDoc EXCEPT ![slug[t]] = fixed]
    /\ calls' = [calls EXCEPT ![t] = Append(@, "fix")]
    /\ pc' = [pc EXCEPT ![t] = "reaudit"]
    /\ UNCHANGED <<pregen, push, alerts, selection, api, notice, draftAudit, draftCard, draftSitemap, draftSocial,
                   approved, remote, approvedEver, slug, audit, requests>>

\* Pass 3: call_claude raised
FixRaises(t) ==
    /\ pc[t] = "fix"
    /\ Abort(t)
    /\ UNCHANGED <<pregen, push, alerts, selection, api, notice, stores, remote, approvedEver, requests>>

\* a re-audit whose critical issues send the run back to Fix
ReAuditReturnsRefixing(t, raw) ==
    /\ pc[t] = "reaudit"
    /\ LET audit2 == pass2_audit(raw)
       IN /\ draftAudit' = [draftAudit EXCEPT ![slug[t]] = audit2]
          /\ IF IsDict(audit2)
             THEN /\ audit' = [audit EXCEPT ![t] = audit2]
                  /\ calls' = [calls EXCEPT ![t] = Append(@, "audit")]
                  /\ pc' = [pc EXCEPT ![t] = AfterAudit(t, audit2)]
                  /\ UNCHANGED <<slug, html>>
             ELSE Abort(t)
    /\ UNCHANGED <<pregen, push, alerts, selection, api, notice, draftDoc, draftCard, draftSitemap, draftSocial,
                   approved, remote, approvedEver, requests>>

\* the re-audit of the fixed version: audit2 is saved, read with .get and
\* adopted as audit
ReAuditReturns(t, raw) ==
    /\ pc[t] = "reaudit"
    /\ LET audit2 == pass2_audit(raw)
       IN /\ draftAudit' = [draftAudit EXCEPT ![slug[t]] = audit2]
          /\ IF IsDict(audit2)
             THEN /\ audit' = [audit EXCEPT ![t] = audit2]
                  /\ calls' = [calls EXCEPT ![t] = Append(@, "audit")]
                  /\ pc' = [pc EXCEPT ![t] = "finalize"]
                  /\ UNCHANGED <<slug, html>>
             ELSE Abort(t)
    /\ UNCHANGED <<pregen, push, alerts, selection, api, notice, draftDoc, draftCard, draftSitemap, draftSocial,
                   approved, remote, approvedEver, requests>>

\* the re-audit: call_claude raised
ReAuditRaises(t) ==
    /\ pc[t] = "reaudit"
    /\ Abort(t)
    /\ UNCHANGED <<pregen, push, alerts, selection, api, notice, stores, remote, approvedEver, requests>>

\* generate_blog_card_html raised (a pre-generated post whose cluster is not
\* a key of calendar["clusters"]) or the card's write_text raised: the
\* exception leaves _run_pipeline before a fragment is written
FragmentsRaise(t) ==
    /\ pc[t] = "finalize"
    /\ Abort(t)
    /\ UNCHANGED <<pregen, push, alerts, selection, api, notice, stores, remote, approvedEver, requests>>

\* a last step in which an undelivered notification ends the run with an
\* exception
FinalizeRaisingUndelivered(t, delivered) ==
    /\ pc[t] = "finalize"
    /\ delivered \in BOOLEAN
    /\ draftCard' = [draftCard EXCEPT ![slug[t]] = TRUE]
    /\ draftSitemap' = [draftSitemap EXCEPT ![slug[t]] = TRUE]
    /\ notice' = IF delivered THEN "sent" ELSE "failed"
    /\ EndRun(t, IF delivered THEN "done" ELSE "aborted")
    /\ UNCHANGED <<pregen, push, alerts, selection, api, draftDoc, draftAudit, draftSocial, approved, remote,
                   approvedEver, requests>>

\* a last step that also pushes the draft to the repository
FinalizeAndPush(t, delivered) ==
    /\ pc[t] = "finalize"
    /\ delivered \in BOOLEAN
    /\ draftCard' = [draftCard EXCEPT ![slug[t]] = TRUE]
    /\ draftSitemap' = [draftSitemap EXCEPT ![slug[t]] = TRUE]
    /\ remote' = [remote EXCEPT ![slug[t]] = draftDoc[slug[t]]]
    /\ notice' = IF delivered THEN "sent" ELSE "failed"
    /\ EndRun(t, "done")
    /\ UNCHANGED <<pregen, push, alerts, selection, api, draftDoc, draftAudit, draftSocial, approved,
                   approvedEver, requests>>

\* the blog card and the sitemap entry are written, the email notification
\* is attempted (delivered or not), and the run ends
Finalize(t, delivered) ==
    /\ pc[t] = "finalize"
    /\ delivered \in BOOLEAN
    /\ draftCard' = [draftCard EXCEPT ![slug[t]] = TRUE]
    /\ draftSitemap' = [draftSitemap EXCEPT ![slug[t]] = TRUE]
    /\ notice' = IF delivered THEN "sent" ELSE "failed"
    /\ EndRun(t, "done")
    /\ UNCHANGED <<pregen, push, alerts, selection, api, draftDoc, draftAudit, draftSocial, approved, remote,
                   approvedEver, requests>>

-----------------------------------------------------------------------------
(* Review surface: the dashboard's handlers and the CLI's approve mode *)

\* the draft's files of slug s other than the document are unlinked
NoExtras(f, s) == [f EXCEPT ![s] = FALSE]

\* push_to_github(filename, content): the repository after the call
Pushed(s, content, accepted) ==
    IF accepted THEN [remote EXCEPT ![s] = content] ELSE remote

\* one more request of the review surface is handled
Request ==
    /\ requests < MaxRequests
    /\ requests' = requests + 1

\* POST /save/<slug>
Save(s, form) ==
    /\ Request
    /\ draftDoc' = IF form # <<>> THEN [draftDoc EXCEPT ![s] = form] ELSE draftDoc
    /\ UNCHANGED <<pregen, push, alerts, selection, api, notice, draftAudit, draftCard, draftSitemap, draftSocial,
                   approved, remote, approvedEver, locals>>

\* POST /approve/<slug>: src is the draft after the form's html, if any, was
\* written to it
Approve(s, form, accepted) ==
    /\ Request
    /\ LET src == IF form # <<>> THEN form ELSE draftDoc[s]
       IN IF src # NoFile
          THEN /\ approved' = [approved EXCEPT ![s] = src]
               /\ remote' = Pushed(s, src, accepted)
               /\ draftDoc' = [draftDoc EXCEPT ![s] = NoFile]
               /\ draftAudit' = [draftAudit EXCEPT ![s] = NoAudit]
               /\ draftCard' = NoExtras(draftCard, s)
               /\ draftSitemap' = NoExtras(draftSitemap, s)
               /\ draftSocial' = NoExtras(draftSocial, s)
               /\ approvedEver' = approvedEver \cup {s}
          ELSE UNCHANGED <<stores, remote, approvedEver>>
    /\ UNCHANGED <<pregen, push, alerts, selection, api, notice, locals>>

\* what POST /approve/<slug> answers to the approver: push_to_github's result
\* is dropped and every path ends in redirect("/")
ApproveResponse(s, form, accepted) == "redirect /"

\* approve_and_deploy(slug), python blog_engine.py --mode approve
approve_and_deploy(s) ==
    /\ Request
    /\ IF draftDoc[s] # NoFile
       THEN /\ approved' = [approved EXCEPT ![s] = draftDoc[s]]
            /\ approvedEver' = approvedEver \cup {s}
       ELSE UNCHANGED <<approved, approvedEver>>
    /\ UNCHANGED <<pregen, push, alerts, selection, api, notice, draftDoc, draftAudit, draftCard, draftSitemap,
                   draftSocial, remote, locals>>

\* POST /reject/<slug>
Reject(s) ==
    /\ Request
    /\ IF draftDoc[s] # NoFile
       THEN /\ draftDoc' = [draftDoc EXCEPT ![s] = NoFile]
            /\ draftAudit' = [draftAudit EXCEPT ![s] = NoAudit]
            /\ draftCard' = NoExtras(draftCard, s)
            /\ draftSitemap' = NoExtras(draftSitemap, s)
            /\ draftSocial' = NoExtras(draftSocial, s)
       ELSE UNCHANGED <<draftDoc, draftAudit, draftCard, draftSitemap, draftSocial>>
    /\ UNCHANGED <<pregen, push, alerts, selection, api, notice, approved, remote, approvedEver, locals>>

\* a reset that clears the drafts folder only
ResetDraftsOnly(s) ==
    /\ Request
    /\ draftDoc' = [draftDoc EXCEPT ![s] = NoFile]
    /\ draftAudit' = [draftAudit EXCEPT ![s] = NoAudit]
    /\ draftCard' = NoExtras(draftCard, s)
    /\ draftSitemap' = NoExtras(draftSitemap, s)
    /\ draftSocial' = NoExtras(draftSocial, s)
    /\ UNCHANGED <<pregen, push, alerts, selection, api, notice, approved, remote,
                   approvedEver, locals>>

\* GET /reset/<slug>
Reset(s) ==
    /\ Request
    /\ draftDoc' = [draftDoc EXCEPT ![s] = NoFile]
    /\ draftAudit' = [draftAudit EXCEPT ![s] = NoAudit]
    /\ draftCard' = NoExtras(draftCard, s)
    /\ draftSitemap' = NoExtras(draftSitemap, s)
    /\ draftSocial' = NoExtras(draftSocial, s)
    /\ approved' = [approved EXCEPT ![s] = NoFile]
    /\ UNCHANGED <<pregen, push, alerts, selection, api, notice, remote, approvedEver, locals>>

\* GET /repush: every approved file is pushed; the repository accepts the
\* pushes of the slugs in accepted
Repush(accepted) ==
    /\ Request
    /\ remote' = [s \in Slugs |->
                    IF approved[s] # NoFile /\ s \in accepted
                    THEN approved[s] ELSE remote[s]]
    /\ UNCHANGED <<pregen, push, alerts, selection, api, notice, stores, approvedEver, locals>>

-----------------------------------------------------------------------------

Next ==
    \/ Scheduled
    \/ \E t \in TriggerThreads : TriggerBlog(t)
    \/ \E t \in TriggerThreads, title \in Titles : TriggerCustom(t, title)
    \/ \E t \in Threads, r \in GenerateResponses : GenerateReturns(t, r)
    \/ \E t \in Threads : GenerateRaises(t)
    \/ \E t \in Threads : SavePreGenerated(t)
    \/ \E t \in Threads, raw \in AuditResponses : AuditReturns(t, raw)
    \/ \E t \in Threads : AuditRaises(t)
    \/ \E t \in Threads, r \in FixResponses : FixReturns(t, r)
    \/ \E t \in Threads : FixRaises(t)
    \/ \E t \in Threads, raw \in AuditResponses : ReAuditReturns(t, raw)
    \/ \E t \in Threads : ReAuditRaises(t)
    \/ \E t \in Threads : FragmentsRaise(t)
    \/ \E t \in Threads, delivered \in BOOLEAN : Finalize(t, delivered)
    \/ \E s \in Slugs, form \in FormHtml : Save(s, form)
    \/ \E s \in Slugs, form \in FormHtml, accepted \in BOOLEAN : Approve(s, form, accepted)
    \/ \E s \in Slugs : approve_and_deploy(s)
    \/ \E s \in Slugs : Reject(s)
    \/ \E s \in Slugs : Reset(s)
    \/ \E accepted \in SUBSET {s \in Slugs : HasApproved(s)} : Repush(accepted)

Spec == Init /\ [][Next]_vars

-----------------------------------------------------------------------------
(* Calls of a run *)

-----------------------------------------------------------------------------
(* Approval *)

\* C34: a document is written to the approved folder only for a slug whose
\* audit report is saved and on which no run is in progress.
C34_ApprovedOnlyFromFinalized ==
    [][\A s \in Slugs :
         approved'[s] # approved[s]
         => /\ draftAudit[s] # NoAudit
            /\ \A t \in Threads : ~(Running(t) /\ slug[t] = s)]_vars

-----------------------------------------------------------------------------
(* Slot resolution and regeneration *)

\* C1: get_next_ungenerated_post never returns a post whose slug has a
\* document in the drafts folder or in the approved folder.
C1_ResolverSkipsExisting ==
    LET post == get_next_ungenerated_post
    IN post # NoPost => ~HasDraft(post.slug) /\ ~HasApproved(post.slug)

\* the first calendar post is approved and has no draft left, and the
\* resolver returns the second post
C1_SkipsApprovedPost ==
    /\ HasApproved(Calendar[1].slug)
    /\ ~HasDraft(Calendar[1].slug)
    /\ get_next_ungenerated_post = Calendar[2]

\* C2: no run executes Generate, or writes its initial draft, for a slug
\* that already has a draft or an approved document.
C2_NeverRegenerated ==
    [][\A t \in Threads :
         (\/ \E r \in GenerateResponses : GenerateReturns(t, r)
          \/ SavePreGenerated(t))
         => ~HasDraft(slug[t]) /\ ~HasApproved(slug[t])]_vars

\* C3: at most one run of _run_pipeline is in progress for a slug.
C3_OneRunPerSlug ==
    \A t1, t2 \in Threads :
        t1 # t2 /\ Running(t1) /\ Running(t2) => slug[t1] # slug[t2]

-----------------------------------------------------------------------------
(* Approval *)

\* C4: for every slug, at most one of the drafts folder and the approved
\* folder holds the slug's document.
C4_DraftOrApproved ==
    \A s \in Slugs : ~(HasDraft(s) /\ HasApproved(s))

\* the dashboard's approve found a document to approve
ApproveSucceeds(s) ==
    \E form \in FormHtml, accepted \in BOOLEAN :
        Approve(s, form, accepted) /\ (form # <<>> \/ HasDraft(s))

\* approve_and_deploy returned True
ApproveAndDeploySucceeds(s) == approve_and_deploy(s) /\ HasDraft(s)

\* C5: after an approval of a slug succeeds, by the dashboard or by
\* approve_and_deploy, no artifact of the slug remains in the drafts folder
\* and the approved folder holds the document.
C5_ApprovalIsAMove ==
    [][\A s \in Slugs :
         ApproveSucceeds(s) \/ ApproveAndDeploySucceeds(s)
         => /\ draftDoc'[s] = NoFile
            /\ draftAudit'[s] = NoAudit
            /\ ~draftCard'[s] /\ ~draftSitemap'[s] /\ ~draftSocial'[s]
            /\ approved'[s] # NoFile]_vars

\* C6: the repository changes only in a request of the review surface, never
\* in a step of a pipeline run or of a trigger, and a slug's file changes
\* there only once the slug has been approved.
C6_PublishOnlyAfterApproval ==
    [][\A s \in Slugs :
         remote'[s] # remote[s]
         => requests' # requests /\ s \in approvedEver']_vars

\* a document written by a pipeline run has been published
C6_PipelineDocumentPublished ==
    \E s \in Slugs : remote[s] \in {NormalizeGenerated(r) : r \in GenerateResponses}
                                    \cup {PreAuthoredDoc}

-----------------------------------------------------------------------------
(* The passes of a run *)

\* C7: in a run whose document came from Pass 1, the step that follows the
\* first audit (audit' is its report) invokes Fix exactly when the report's
\* critical_issues list is non-empty, whatever its overall_grade and
\* publish_ready are; a run that aborts there invokes nothing, and nothing
\* else invokes Fix.
C7_FixIffCriticalIssues ==
    [][\A t \in Threads :
         /\ pc[t] = "audit" /\ pc'[t] \in {"fix", "finalize"} /\ ~is_pre_generated(t)
              => (pc'[t] = "fix" <=> HasCritical(audit'[t]))
         /\ pc[t] = "audit" /\ pc'[t] \notin {"audit", "fix", "finalize"}
              => pc'[t] = "aborted"
         /\ pc'[t] = "fix" /\ pc[t] # "fix"
              => pc[t] = "audit" /\ ~is_pre_generated(t) /\ HasCritical(audit'[t])]_vars

\* a run is about to call Fix on a report graded A and publish-ready
C7_FixOnGradeA ==
    \E t \in Threads :
        /\ pc[t] = "fix"
        /\ Get(audit[t], "overall_grade", "?") = "A"
        /\ Get(audit[t], "publish_ready", FALSE)

\* C8: a run on a pre-authored document calls neither Generate nor Fix, and
\* when the notification is attempted the document in the drafts folder is
\* the pre-authored document.
C8_PreAuthoredUnaltered ==
    [][\A t \in Threads :
         (\E delivered \in BOOLEAN : Finalize(t, delivered)) /\ is_pre_generated(t)
         => /\ \A i \in 1..Len(calls[t]) : calls[t][i] \notin {"generate", "fix"}
            /\ draftDoc[slug[t]] = pregen[slug[t]]]_vars

\* C9: when Fix ran, the audit report in the drafts folder at the end of the
\* run is the re-audit's report, the one the notification uses.
C9_SecondAuditPersisted ==
    [][\A t \in Threads :
         /\ \E delivered \in BOOLEAN : Finalize(t, delivered)
         /\ \E i \in 1..Len(calls[t]) : calls[t][i] = "fix"
         => draftAudit'[slug[t]] = audit[t]]_vars

\* C10: once the generation service has answered an audit call, whatever the
\* text, the run saves an audit report and goes on towards Finalize.
C10_AuditResponseNeverAborts ==
    [][\A t \in Threads, raw \in AuditResponses :
         AuditReturns(t, raw) \/ ReAuditReturns(t, raw)
         => /\ pc'[t] \in {"fix", "finalize"}
            /\ IsDict(draftAudit'[slug[t]])]_vars

-----------------------------------------------------------------------------
(* Failures of the passes of a run *)

\* the run of thread t ends in this step with an exception raised in pass p
FailsIn(t, p) == pc[t] = p /\ pc'[t] = "aborted"

\* every calendar slot before the slot of slug s has a draft or an approved
\* document, so that the loop of slot resolution gets as far as s
EarlierSlotsGenerated(s) ==
    \A i, j \in 1..Len(Calendar) :
        Calendar[j].slug = s /\ i < j
        => HasDraft(Calendar[i].slug) \/ HasApproved(Calendar[i].slug)

\* C14: when the call of the generation service fails in any pass of a run
\* for a calendar slot (Generate, Audit, Fix or re-Audit), the run aborts and
\* the slot stays ungenerated: slot resolution selects the same slug again.
C14_FailedPassLeavesSlotUngenerated ==
    [][\A t \in Threads :
         /\ AuditRaises(t) \/ GenerateRaises(t) \/ FixRaises(t) \/ ReAuditRaises(t)
         /\ slug[t] \in CalendarSlugs
         /\ EarlierSlotsGenerated(slug[t])
         => /\ pc'[t] = "aborted"
            /\ get_next_ungenerated_post' # NoPost
            /\ get_next_ungenerated_post'.slug = slug[t]]_vars

\* C15: a run whose Generate pass fails has written nothing to the drafts
\* folder: neither its start nor its failure changes the document, the
\* audit report, the card or the sitemap entry of any slug.
C15_GenerateFailureWritesNothing ==
    [][\A t \in Threads :
         (pc[t] = "idle" /\ pc'[t] = "generate") \/ FailsIn(t, "generate")
         => UNCHANGED <<draftDoc, draftAudit, draftCard, draftSitemap>>]_vars

\* a run has failed in Generate, and the drafts folder holds no document
C15_GenerateFailed ==
    /\ \E t \in Threads : pc[t] = "aborted"
    /\ requests = 0
    /\ \A s \in Slugs : ~HasDraft(s) /\ draftAudit[s] = NoAudit

\* C16: when a run fails in Audit, Fix or the re-audit, what the earlier
\* passes of the run saved is unchanged: the draft document, and after a
\* failure in Fix or in the re-audit the first audit report as well.
C16_EarlierArtifactsUnchanged ==
    [][\A t \in Threads :
         /\ FailsIn(t, "audit") \/ FailsIn(t, "fix") \/ FailsIn(t, "reaudit")
            => draftDoc'[slug[t]] = draftDoc[slug[t]]
         /\ FailsIn(t, "fix") \/ FailsIn(t, "reaudit")
            => draftAudit'[slug[t]] = draftAudit[slug[t]]]_vars

\* C17: every run that has completed its audit writes the card and the
\* sitemap entry of its slug to the drafts folder and attempts the
\* notification of the reviewer: the step that takes a run out of Finalize
\* ends the run normally, with both fragments written and a notification
\* sent or failed.
C17_FinalizeWritesAndNotifies ==
    [][\A t \in Threads :
         pc[t] = "finalize" /\ pc'[t] # "finalize"
         => /\ pc'[t] = "done"
            /\ draftCard'[slug[t]] /\ draftSitemap'[slug[t]]
            /\ notice' \in {"sent", "failed"}]_vars

\* C18: a notification that is not delivered does not end the run with an
\* exception: the run completes, the card and the sitemap entry are written,
\* and the documents and audit reports of the drafts folder are untouched.
C18_NotificationFailureNotRaised ==
    [][\A t \in Threads :
         Finalize(t, FALSE)
         => /\ pc'[t] = "done"
            /\ draftCard'[slug[t]] /\ draftSitemap'[slug[t]]
            /\ draftDoc' = draftDoc /\ draftAudit' = draftAudit]_vars

\* a run is complete with its four artifacts and an undelivered notification
C18_UndeliveredAndComplete ==
    /\ notice = "failed"
    /\ \E t \in Threads : pc[t] = "done"
    /\ \E s \in Slugs : /\ HasDraft(s) /\ IsDict(draftAudit[s])
                        /\ draftCard[s] /\ draftSitemap[s]

\* C19: a failure while the card or the sitemap entry is produced or written
\* does not abort the run: the run ends normally, and its document and audit
\* report stay in the drafts folder.
C19_FragmentFailureNotFatal ==
    [][\A t \in Threads :
         FragmentsRaise(t)
         => /\ pc'[t] = "done"
            /\ draftDoc' = draftDoc /\ draftAudit' = draftAudit]_vars

\* C20: when the push to the repository fails during an approval, the
\* approver is told so (the answer differs from the answer to an approval
\* that was published), and the document is in the approved folder, from
\* where a later repush can publish it.
C20_PublishFailureReported ==
    [][\A s \in Slugs, form \in FormHtml :
         Approve(s, form, FALSE) /\ approved'[s] # approved[s]
         => /\ approved'[s] # NoFile
            /\ ApproveResponse(s, form, FALSE) # ApproveResponse(s, form, TRUE)]_vars

-----------------------------------------------------------------------------
(* The slot resolvers *)

\* the calendar post at position i has neither a draft nor an approved
\* document
Ungenerated(i) == ~HasDraft(Calendar[i].slug) /\ ~HasApproved(Calendar[i].slug)

\* C26: get_next_ungenerated_post returns the first calendar post that has
\* neither a draft nor an approved document, and None exactly when every
\* calendar post has one.
C26_FirstUngeneratedOrNone ==
    LET open == {i \in 1..Len(Calendar) : Ungenerated(i)}
    IN /\ get_next_ungenerated_post = NoPost <=> open = {}
       /\ open # {} =>
            \E i \in open : /\ get_next_ungenerated_post = Calendar[i]
                            /\ \A j \in open : i <= j

\* every calendar post has a document, and the resolver returns None
C26_AllGenerated ==
    /\ \A i \in 1..Len(Calendar) : ~Ungenerated(i)
    /\ get_next_ungenerated_post = NoPost

\* C27: on every weekday, get_next_scheduled_post returns the first calendar
\* post of that day that has neither a draft nor an approved document, None
\* when there is no such post, and None on a day that is no publishing day.
C27_ScheduledPostOfToday ==
    \A day_name \in Weekdays :
        LET today == {i \in 1..Len(Calendar) :
                        Calendar[i].day = day_name /\ Ungenerated(i)}
            post == get_next_scheduled_post(day_name)
        IN /\ post = NoPost <=> today = {}
           /\ today # {} =>
                \E i \in today : post = Calendar[i] /\ \A j \in today : i <= j
           /\ day_name \notin {"monday", "wednesday", "friday"} => post = NoPost

\* the first calendar post has a document; on a wednesday the resolver
\* returns the wednesday post, on a monday None
C27_DayDecides ==
    /\ ~Ungenerated(1)
    /\ get_next_scheduled_post("wednesday") = Calendar[2]
    /\ get_next_scheduled_post("monday") = NoPost

-----------------------------------------------------------------------------
(* Ownership of a slug's draft files *)

\* the run of thread t has written its first draft and has not yet sent its
\* notification
OwnsDraft(t) == pc[t] \in {"audit", "fix", "reaudit", "finalize"}

\* C21: while a run is between its first draft write and its notification,
\* no request of the review surface (save, approve, reject, reset) changes
\* the files of the run's slug in the drafts folder or in the approved
\* folder.
C21_PipelineOwnsDraftWhileRunning ==
    [][\A t \in Threads :
         OwnsDraft(t) /\ requests' # requests
         => /\ draftDoc'[slug[t]] = draftDoc[slug[t]]
            /\ draftAudit'[slug[t]] = draftAudit[slug[t]]
            /\ approved'[slug[t]] = approved[slug[t]]]_vars

-----------------------------------------------------------------------------
(* The audit report parser on its own: a run that has saved its draft, and  *)
(* whose Audit call returns one of the responses of ParserInputs            *)

\* length of the texts enumerated over ParserAlphabet
MaxTextLen == 3

ParserAlphabet ==
    {"<fence json>", "<fence>", "{", "}", "critical 1", "[", "]", "prose", "null"}

\* a response longer than the prefix the fallback report keeps
LongProse == [i \in 1..(RawLimit + 1) |-> "prose"]

\* a fenced number followed by a report: Strategy 1 and Strategy 2 both
\* parse, to different values
FencedNumberThenReport ==
    <<"<fence json>", "7", "<fence>", "{", "critical 1", "}">>

\* a fence that does not parse, followed by a report
FencedProseThenReport ==
    <<"<fence json>", "prose", "<fence>", "{", "grade B", "}">>

ParserInputs ==
    UNION {[1..n -> ParserAlphabet] : n \in 0..MaxTextLen}
    \cup AuditResponses
    \cup {LongProse, FencedNumberThenReport, FencedProseThenReport}

ParserInit ==
    /\ pregen = [s \in Slugs |-> NoFile]
    /\ draftDoc = [s \in Slugs |-> IF s = Calendar[1].slug THEN GeneratedDoc ELSE NoFile]
    /\ draftAudit = [s \in Slugs |-> NoAudit]
    /\ draftCard = [s \in Slugs |-> FALSE]
    /\ draftSitemap = [s \in Slugs |-> FALSE]
    /\ draftSocial = [s \in Slugs |-> FALSE]
    /\ approved = [s \in Slugs |-> NoFile]
    /\ remote = [s \in Slugs |-> NoFile]
    /\ approvedEver = {}
    /\ pc = [t \in Threads |-> IF t = Cron THEN "audit" ELSE "idle"]
    /\ slug = [t \in Threads |-> IF t = Cron THEN Calendar[1].slug ELSE NoSlug]
    /\ html = [t \in Threads |-> IF t = Cron THEN GeneratedDoc ELSE NoFile]
    /\ audit = [t \in Threads |-> NoAudit]
    /\ calls = [t \in Threads |-> IF t = Cron THEN <<"generate">> ELSE <<>>]
    /\ requests = 0
    /\ notice = "none"
    /\ selection = [t \in Threads |-> NoSelection]
    /\ alerts = [id \in AlertIds |-> NoAlert]
    /\ push = [t \in Threads |-> NoPush]
    /\ api \in {[result |-> "returned", response |-> raw] : raw \in ParserInputs}

\* the run's Audit call returns the response
ParserNext == api.result = "returned" /\ AuditReturns(Cron, api.response)

ParserSpec == ParserInit /\ [][ParserNext]_vars

\* the report saved by the run under ParserSpec
SavedReport == draftAudit[Calendar[1].slug]

\* C11: when none of the three strategies yields a result, pass2_audit
\* returns a report with overall_grade UNKNOWN, publish_ready false, exactly
\* one synthetic entry in critical_issues or warnings, and the response, cut
\* to its first RawLimit characters, as raw_response.
C11_FallbackReport ==
    [][LET raw == api.response
       IN /\ ParserNext
          /\ ~Parsed(Strategy1(raw)) /\ ~Parsed(Strategy2(raw)) /\ ~Parsed(Strategy3(raw))
          => /\ IsDict(SavedReport')
             /\ SavedReport'.val.overall_grade = "UNKNOWN"
             /\ SavedReport'.val.publish_ready = FALSE
             /\ Len(SavedReport'.val.critical_issues)
                  + Len(SavedReport'.val.warnings) = 1
             /\ Len(SavedReport'.val.raw_response) = Min(Len(raw), RawLimit)
             /\ \A i \in 1..Len(SavedReport'.val.raw_response) :
                    SavedReport'.val.raw_response[i] = raw[i]]_vars

\* the fallback report of a response longer than RawLimit is saved, with the
\* response cut to RawLimit
C11_LongResponseCut ==
    /\ Len(api.response) > RawLimit
    /\ IsDict(SavedReport)
    /\ Get(SavedReport, "overall_grade", "?") = "UNKNOWN"
    /\ Len(Get(SavedReport, "raw_response", <<>>)) = RawLimit
    /\ pc[Cron] = "finalize"

\* C12: pass2_audit returns for every response, and what it returns is the
\* value of the first strategy that parses, in the order (1) the interior of
\* the json fence, (2) the text from the first opening brace to the last
\* closing brace, (3) the text without its fence lines; the fallback report
\* is returned only when none of the three parses.
C12_StrategiesInOrder ==
    [][LET raw == api.response
           fenced == Strategy1(raw)
           braced == Strategy2(raw)
           stripped == Strategy3(raw)
       IN ParserNext
          => /\ SavedReport' # NoAudit
             /\ SavedReport'.type \in {"object", "array", "number"}
             /\ Parsed(fenced) => SavedReport' = fenced
             /\ ~Parsed(fenced) /\ Parsed(braced) => SavedReport' = braced
             /\ ~Parsed(fenced) /\ ~Parsed(braced) /\ Parsed(stripped)
                  => SavedReport' = stripped
             /\ SavedReport' = FallbackAudit(raw)
                  => ~Parsed(fenced) /\ ~Parsed(braced) /\ ~Parsed(stripped)]_vars

\* the response held a fenced value and, after it, a report in braces, both
\* of which parse: the fenced value was returned
C12_FenceBeforeBraces ==
    /\ Parsed(Strategy1(api.response))
    /\ Parsed(Strategy2(api.response))
    /\ Strategy1(api.response) # Strategy2(api.response)
    /\ SavedReport = Strategy1(api.response)

\* C37: an audit response that none of the strategies parses never triggers
\* Fix: the fallback report has no critical issue, the run goes from Audit
\* to Finalize, and the draft stays as Generate saved it.
C37_UnparseableAuditSkipsFix ==
    [][LET raw == api.response
       IN /\ ParserNext
          /\ ~Parsed(Strategy1(raw)) /\ ~Parsed(Strategy2(raw)) /\ ~Parsed(Strategy3(raw))
          => /\ SavedReport'.val.critical_issues = <<>>
             /\ pc'[Cron] = "finalize"
             /\ html' = html
             /\ draftDoc' = draftDoc]_vars

\* a generated document whose audit response was prose is about to be
\* finalized with the fallback report and the draft of Generate
C37_ProseAuditFinalized ==
    /\ api.response # <<>>
    /\ ~Parsed(Strategy3(api.response))
    /\ SavedReport = FallbackAudit(api.response)
    /\ calls[Cron] = <<"generate", "audit">>
    /\ pc[Cron] = "finalize"
    /\ draftDoc[Calendar[1].slug] = GeneratedDoc

-----------------------------------------------------------------------------
(* The normalization of Generate and Fix on its own: a run at its Generate *)
(* call, or at its Fix call with the draft of Generate saved and audited,  *)
(* whose call returns one of the responses of ResponseInputs               *)

\* length of the texts enumerated over ResponseAlphabet
MaxResponseLen == 4

ResponseAlphabet ==
    {"<fence html>", "<fence>", "prose", "<!DOCTYPE html", "<!doctype html", "</html>"}

ResponseInputs == UNION {[1..n -> ResponseAlphabet] : n \in 0..MaxResponseLen}

\* the report of the first audit of the run that is at its Fix call
CriticalAudit == pass2_audit(<<"{", "grade F", "critical 1", "}">>)

ResponseInit ==
    /\ pregen = [s \in Slugs |-> NoFile]
    /\ draftCard = [s \in Slugs |-> FALSE]
    /\ draftSitemap = [s \in Slugs |-> FALSE]
    /\ draftSocial = [s \in Slugs |-> FALSE]
    /\ approved = [s \in Slugs |-> NoFile]
    /\ remote = [s \in Slugs |-> NoFile]
    /\ approvedEver = {}
    /\ slug = [t \in Threads |-> IF t = Cron THEN Calendar[1].slug ELSE NoSlug]
    /\ requests = 0
    /\ notice = "none"
    /\ selection = [t \in Threads |-> NoSelection]
    /\ alerts = [id \in AlertIds |-> NoAlert]
    /\ push = [t \in Threads |-> NoPush]
    /\ api \in {[result |-> "returned", response |-> r] : r \in ResponseInputs}
    /\ \/ /\ pc = [t \in Threads |-> IF t = Cron THEN "generate" ELSE "idle"]
          /\ html = [t \in Threads |-> NoFile]
          /\ audit = [t \in Threads |-> NoAudit]
          /\ calls = [t \in Threads |-> <<>>]
          /\ draftDoc = [s \in Slugs |-> NoFile]
          /\ draftAudit = [s \in Slugs |-> NoAudit]
       \/ /\ pc = [t \in Threads |-> IF t = Cron THEN "fix" ELSE "idle"]
          /\ html = [t \in Threads |-> IF t = Cron THEN GeneratedDoc ELSE NoFile]
          /\ audit = [t \in Threads |-> IF t = Cron THEN CriticalAudit ELSE NoAudit]
          /\ calls = [t \in Threads |-> IF t = Cron THEN <<"generate", "audit">> ELSE <<>>]
          /\ draftDoc = [s \in Slugs |-> IF s = Calendar[1].slug THEN GeneratedDoc ELSE NoFile]
          /\ draftAudit = [s \in Slugs |-> IF s = Calendar[1].slug THEN CriticalAudit ELSE NoAudit]

\* the run's call returns the response; the re-audit that follows Fix returns
ResponseNext ==
    \/ api.result = "returned" /\ GenerateReturns(Cron, api.response)
    \/ api.result = "returned" /\ FixReturns(Cron, api.response)
    \/ \E raw \in AuditResponses : ReAuditReturns(Cron, raw)

ResponseSpec == ResponseInit /\ [][ResponseNext]_vars

\* the draft of the run under ResponseSpec
SavedDraft == draftDoc[Calendar[1].slug]

\* C32: Generate saves the response without its fence lines, cut to the text
\* from the first document-start marker (in either case) to the last
\* document-end marker, with nothing before or after it; a response that
\* holds no such text is saved whole, without its fence lines.
C32_GenerateNormalizes ==
    [][GenerateReturns(Cron, api.response)
       => LET t == Without(api.response, HtmlFences)
              document == \E i, j \in 1..Len(t) :
                             i < j /\ t[i] \in DocStart /\ t[j] \in DocEnd
          IN /\ html'[Cron] = SavedDraft'
             /\ \A k \in 1..Len(SavedDraft') : SavedDraft'[k] \notin HtmlFences
             /\ document
                => /\ SavedDraft'[1] \in DocStart
                   /\ SavedDraft'[Len(SavedDraft')] \in DocEnd
                   /\ \E i, j \in 1..Len(t) :
                        /\ SavedDraft' = SubSeq(t, i, j)
                        /\ \A k \in 1..(i - 1) : t[k] \notin DocStart
                        /\ \A k \in (j + 1)..Len(t) : t[k] \notin DocEnd
             /\ ~document => SavedDraft' = t]_vars

\* a response with prose before and after a document was saved as the
\* document alone
C32_ProseCutOff ==
    /\ pc[Cron] = "audit"
    /\ Len(api.response) >= 4
    /\ api.response[1] = "prose"
    /\ api.response[Len(api.response)] = "prose"
    /\ Len(SavedDraft) = Len(api.response) - 2
    /\ SavedDraft[1] \in DocStart

\* C38: when the response to Fix holds no complete document, pass3_fix
\* returns the html it was given and the draft keeps its content; the draft
\* is never replaced by a text that is no document; the re-audit runs on the
\* run's html, and its report replaces the saved one.
C38_FixKeepsOriginal ==
    [][/\ FixReturns(Cron, api.response)
          => /\ ~HasHtmlMatch(Without(api.response, HtmlFences))
                => html' = html /\ draftDoc' = draftDoc
             /\ SavedDraft'[1] \in DocStart
             /\ SavedDraft'[Len(SavedDraft')] \in DocEnd
             /\ html'[Cron] = SavedDraft'
             /\ pc'[Cron] = "reaudit"
       /\ \A raw \in AuditResponses :
            ReAuditReturns(Cron, raw)
            => /\ draftAudit'[Calendar[1].slug] = pass2_audit(raw)
               /\ draftDoc' = draftDoc]_vars

\* a Fix answered in prose was followed by a re-audit whose report, without
\* critical issues, replaced the first one; the draft is the one of Generate
C38_ReAuditedUnchanged ==
    /\ ~HasHtmlMatch(Without(api.response, HtmlFences))
    /\ api.response # <<>>
    /\ calls[Cron] = <<"generate", "audit", "fix", "audit">>
    /\ SavedDraft = GeneratedDoc
    /\ draftAudit[Calendar[1].slug] # CriticalAudit
    /\ ~HasCritical(draftAudit[Calendar[1].slug])

-----------------------------------------------------------------------------
(* call_claude on its own: one call, attempt by attempt. api.service is what *)
(* the generation service answers to the successive requests of the call.   *)

\* max_retries = 3
max_retries == 3

\* number of answers of the service that are enumerated
MaxAnswers == 4

ServiceAnswers == {"ok", "rate_limit", "api_error"}

CallInit ==
    /\ pregen = [s \in Slugs |-> NoFile]
    /\ draftDoc = [s \in Slugs |-> NoFile]
    /\ draftAudit = [s \in Slugs |-> NoAudit]
    /\ draftCard = [s \in Slugs |-> FALSE]
    /\ draftSitemap = [s \in Slugs |-> FALSE]
    /\ draftSocial = [s \in Slugs |-> FALSE]
    /\ approved = [s \in Slugs |-> NoFile]
    /\ remote = [s \in Slugs |-> NoFile]
    /\ approvedEver = {}
    /\ pc = [t \in Threads |-> "idle"]
    /\ slug = [t \in Threads |-> NoSlug]
    /\ html = [t \in Threads |-> NoFile]
    /\ audit = [t \in Threads |-> NoAudit]
    /\ calls = [t \in Threads |-> <<>>]
    /\ requests = 0
    /\ notice = "none"
    /\ selection = [t \in Threads |-> NoSelection]
    /\ alerts = [id \in AlertIds |-> NoAlert]
    /\ push = [t \in Threads |-> NoPush]
    /\ api \in {[result |-> "calling", response |-> <<>>, service |-> answers,
                  attempt |-> 0, made |-> 0, slept |-> <<>>] :
                 answers \in [1..MaxAnswers -> ServiceAnswers]}

\* the loop of call_claude is at "for attempt in range(max_retries)"
Calling == api.result = "calling" /\ api.attempt < max_retries /\ api.service # <<>>

CallFrame == UNCHANGED <<pregen, push, alerts, selection, stores, remote, approvedEver, locals, requests, notice>>

\* client.messages.create returned: break, and the text blocks are returned
AttemptReturns ==
    /\ Calling
    /\ Head(api.service) = "ok"
    /\ api' = [api EXCEPT !.result = "returned", !.response = GeneratedDoc,
                          !.made = @ + 1, !.service = Tail(@)]
    /\ CallFrame

\* except anthropic.RateLimitError: sleep 60 * (attempt + 1), then raise if
\* this was the last attempt of the loop
AttemptRateLimited ==
    /\ Calling
    /\ Head(api.service) = "rate_limit"
    /\ api' = [api EXCEPT
                  !.slept = Append(@, 60 * (api.attempt + 1)),
                  !.made = @ + 1,
                  !.service = Tail(@),
                  !.attempt = @ + 1,
                  !.result = IF api.attempt = max_retries - 1
                             THEN "RateLimitError" ELSE "calling"]
    /\ CallFrame

\* except anthropic.APIError: raise
AttemptApiError ==
    /\ Calling
    /\ Head(api.service) = "api_error"
    /\ api' = [api EXCEPT !.result = "APIError", !.made = @ + 1,
                          !.service = Tail(@)]
    /\ CallFrame

CallNext == AttemptReturns \/ AttemptRateLimited \/ AttemptApiError

CallSpec == CallInit /\ [][CallNext]_vars

\* C13: on rate-limit errors call_claude retries up to 3 times, waiting 60,
\* 120 and 180 seconds before the successive retries, so that every wait is
\* followed by a request; the error is raised only once the third retry is
\* rate-limited too, and a request that succeeds ends the call at once.
C13_ThreeRetriesWithBackoff ==
    api.result \in {"returned", "RateLimitError", "APIError"}
    => /\ api.slept = [i \in 1..(api.made - 1) |-> 60 * i]
       /\ api.made <= 1 + 3
       /\ api.result = "RateLimitError" => api.made = 1 + 3

-----------------------------------------------------------------------------
(* Hero images: select_hero_image in pass1_generate, on runs that select an *)
(* image, wait for the generation service and save the document that shows *)
(* the image.                                                               *)

\* three images of HERO_IMAGE_POOL, in the pool's order; a url stands for
\* the image's address
HERO_IMAGE_POOL == <<
    [id |-> "aerial-san-juan", url |-> "<url aerial-san-juan>", themes |-> {"act60"}],
    [id |-> "el-morro-fort", url |-> "<url el-morro-fort>", themes |-> {"act60"}],
    [id |-> "pr-marina", url |-> "<url pr-marina>", themes |-> {"tax-strategy"}] >>

\* the posts of the runs: slug and the category_tag of the post's cluster;
\* no image of the pool has the theme "operations"
ImagePosts == {
    [slug |-> <<"blog-", "x">>, category |-> "act60"],
    [slug |-> <<"blog-", "y">>, category |-> "act60"],
    [slug |-> <<"blog-", "z">>, category |-> "operations"] }

ImageSlugs == {p.slug : p \in ImagePosts}

\* int(hashlib.md5(slug.encode()).hexdigest(), 16), given by its residue
\* modulo 6, which decides its residue modulo every list length up to 3:
\* md5("blog-x") = 1, md5("blog-y") = 5, md5("blog-z") = 5 (mod 6)
md5(s) ==
    IF s = <<"blog-", "x">> THEN 1
    ELSE IF s = <<"blog-", "y">> THEN 5
    ELSE 5

\* the generated document shows the image it was told to show
ImageDoc(img) == <<"<!DOCTYPE html", img.url, "</html>">>

\* img["url"] in content
Shows(doc, img) == \E k \in 1..Len(doc) : doc[k] = img.url

\* used_images: the ids of the images whose url is in a document of the
\* drafts folder or of the approved folder
used_images ==
    {HERO_IMAGE_POOL[i].id : i \in
        {j \in 1..Len(HERO_IMAGE_POOL) :
            \E s \in DOMAIN draftDoc :
                \/ Shows(draftDoc[s], HERO_IMAGE_POOL[j])
                \/ Shows(approved[s], HERO_IMAGE_POOL[j])}}

\* a selection that lets every image be taken again before it takes an image
\* of another category
select_hero_image_reuse_first(s, category, used) ==
    LET Themed(img) == category \in img.themes /\ img.id \notin used
        Unused(img) == img.id \notin used
        AllThemed(img) == category \in img.themes
        themed == SelectSeq(HERO_IMAGE_POOL, Themed)
        unused == SelectSeq(HERO_IMAGE_POOL, Unused)
        all_themed == SelectSeq(HERO_IMAGE_POOL, AllThemed)
        Pick(list) == list[(md5(s) % Len(list)) + 1]
    IN  IF themed # <<>> THEN Pick(themed)
        ELSE IF all_themed # <<>> THEN Pick(all_themed)
        ELSE IF unused # <<>> THEN Pick(unused)
        ELSE Pick(HERO_IMAGE_POOL)

\* select_hero_image(post, calendar) once used_images is computed
select_hero_image(s, category, used) ==
    LET Themed(img) == category \in img.themes /\ img.id \notin used
        Unused(img) == img.id \notin used
        AllThemed(img) == category \in img.themes
        themed == SelectSeq(HERO_IMAGE_POOL, Themed)
        unused == SelectSeq(HERO_IMAGE_POOL, Unused)
        all_themed == SelectSeq(HERO_IMAGE_POOL, AllThemed)
        Pick(list) == list[(md5(s) % Len(list)) + 1]
    IN  IF themed # <<>> THEN Pick(themed)
        ELSE IF unused # <<>> THEN Pick(unused)
        ELSE IF all_themed # <<>> THEN Pick(all_themed)
        ELSE Pick(HERO_IMAGE_POOL)

ImageInit ==
    /\ pregen = [s \in ImageSlugs |-> NoFile]
    /\ draftDoc = [s \in ImageSlugs |-> NoFile]
    /\ draftAudit = [s \in ImageSlugs |-> NoAudit]
    /\ draftCard = [s \in ImageSlugs |-> FALSE]
    /\ draftSitemap = [s \in ImageSlugs |-> FALSE]
    /\ draftSocial = [s \in ImageSlugs |-> FALSE]
    /\ approved = [s \in ImageSlugs |-> NoFile]
    /\ remote = [s \in ImageSlugs |-> NoFile]
    /\ approvedEver = {}
    /\ pc = [t \in Threads |-> "idle"]
    /\ slug = [t \in Threads |-> NoSlug]
    /\ html = [t \in Threads |-> NoFile]
    /\ audit = [t \in Threads |-> NoAudit]
    /\ calls = [t \in Threads |-> <<>>]
    /\ requests = 0
    /\ notice = "none"
    /\ selection = [t \in Threads |-> NoSelection]
    /\ alerts = [id \in AlertIds |-> NoAlert]
    /\ push = [t \in Threads |-> NoPush]
    /\ api = NoCall

\* a selection that depends on the process that makes it
SelectImageByProcess(t, post) ==
    /\ Free(t)
    /\ pc' = [pc EXCEPT ![t] = "generate"]
    /\ slug' = [slug EXCEPT ![t] = post.slug]
    /\ selection' = [selection EXCEPT ![t] =
          [image |-> IF t = Cron
                     THEN select_hero_image(post.slug, post.category, used_images)
                     ELSE HERO_IMAGE_POOL[1],
           category |-> post.category,
           used |-> used_images]]
    /\ UNCHANGED <<pregen, push, alerts, api, notice, stores, remote, approvedEver, html, audit,
                   calls, requests>>

\* a run for post starts and pass1_generate selects its hero image, before
\* the generation service is called
SelectImage(t, post) ==
    /\ Free(t)
    /\ pc' = [pc EXCEPT ![t] = "generate"]
    /\ slug' = [slug EXCEPT ![t] = post.slug]
    /\ selection' = [selection EXCEPT ![t] =
          [image |-> select_hero_image(post.slug, post.category, used_images),
           category |-> post.category,
           used |-> used_images]]
    /\ UNCHANGED <<pregen, push, alerts, api, notice, stores, remote, approvedEver, html, audit,
                   calls, requests>>

\* pass1_generate returned the document with the image, the draft is saved,
\* and the thread is free for its next run
SaveWithImage(t) ==
    /\ pc[t] = "generate"
    /\ selection[t] # NoSelection
    /\ draftDoc' = [draftDoc EXCEPT ![slug[t]] = ImageDoc(selection[t].image)]
    /\ pc' = [pc EXCEPT ![t] = "idle"]
    /\ slug' = [slug EXCEPT ![t] = NoSlug]
    /\ selection' = [selection EXCEPT ![t] = NoSelection]
    /\ UNCHANGED <<pregen, push, alerts, api, notice, draftAudit, draftCard,
                   draftSitemap, draftSocial, approved, remote, approvedEver, html,
                   audit, calls, requests>>

ImageNext ==
    \/ \E t \in Threads, post \in ImagePosts : SelectImage(t, post)
    \/ \E t \in Threads : SaveWithImage(t)
    \/ \E s \in ImageSlugs : Approve(s, <<>>, TRUE)
    \/ \E s \in ImageSlugs : Reject(s)
    \/ \E s \in ImageSlugs : Reset(s)

ImageSpec == ImageInit /\ [][ImageNext]_vars

\* a run of thread t has selected its image and not yet saved its document
Selected(t) == pc[t] = "generate" /\ selection[t] # NoSelection

C23_PriorityOrderAndIndex ==
    \A t \in Threads :
        Selected(t) =>
        LET category == selection[t].category
            used == selection[t].used
            All == 1..Len(HERO_IMAGE_POOL)
            L1 == {i \in All : /\ category \in HERO_IMAGE_POOL[i].themes
                               /\ HERO_IMAGE_POOL[i].id \notin used}
            L2 == {i \in All : /\ category \notin HERO_IMAGE_POOL[i].themes
                               /\ HERO_IMAGE_POOL[i].id \notin used}
            L3 == {i \in All : category \in HERO_IMAGE_POOL[i].themes}
            L == IF L1 # {} THEN L1 ELSE IF L2 # {} THEN L2
                 ELSE IF L3 # {} THEN L3 ELSE All
        IN  \E i \in L :
                /\ selection[t].image = HERO_IMAGE_POOL[i]
                /\ Cardinality({j \in L : j < i}) = md5(slug[t]) % Cardinality(L)

\* a selection made with every image of the post's category in use and an
\* image of another category free
C23_TakenFromOtherCategory ==
    \E t \in Threads :
        /\ Selected(t)
        /\ selection[t].category = "act60"
        /\ selection[t].used = {"aerial-san-juan", "el-morro-fort"}
        /\ selection[t].image.id = "pr-marina"

\* the images a document shows
ImagesOf(doc) == {i \in 1..Len(HERO_IMAGE_POOL) : Shows(doc, HERO_IMAGE_POOL[i])}

\* C24: no two posts of distinct slugs whose documents are in the drafts or
\* approved folder at the same time show the same hero image.
C24_NoSharedImage ==
    \A s1, s2 \in ImageSlugs :
        s1 # s2
        => (ImagesOf(draftDoc[s1]) \cup ImagesOf(approved[s1]))
           \cap (ImagesOf(draftDoc[s2]) \cup ImagesOf(approved[s2])) = {}

\* C25: a run of Generate for a slug that already has a document from an
\* earlier run is assigned the image of that document again.
C25_RerunKeepsImage ==
    [][\A t \in Threads :
         /\ ~Selected(t) /\ Selected(t)'
         /\ draftDoc[slug'[t]] # NoFile
         => Shows(draftDoc[slug'[t]], selection'[t].image)]_vars

-----------------------------------------------------------------------------
(* News alerts: the monitor scan of run_news_monitor_pipeline writes alert  *)
(* files, GET /generate-alert/<alert_id> starts a thread that generates the *)
(* article and then writes the alert's status.                              *)

\* requests past the checks of generate_alert, and run() threads at work,
\* that one alert may have
MaxAlertThreads == 2

AlertFrame ==
    UNCHANGED <<pregen, stores, remote, approvedEver, locals, requests, notice,
                api, selection, push>>

AlertInit ==
    /\ pregen = [s \in Slugs |-> NoFile]
    /\ draftDoc = [s \in Slugs |-> NoFile]
    /\ draftAudit = [s \in Slugs |-> NoAudit]
    /\ draftCard = [s \in Slugs |-> FALSE]
    /\ draftSitemap = [s \in Slugs |-> FALSE]
    /\ draftSocial = [s \in Slugs |-> FALSE]
    /\ approved = [s \in Slugs |-> NoFile]
    /\ remote = [s \in Slugs |-> NoFile]
    /\ approvedEver = {}
    /\ pc = [t \in Threads |-> "idle"]
    /\ slug = [t \in Threads |-> NoSlug]
    /\ html = [t \in Threads |-> NoFile]
    /\ audit = [t \in Threads |-> NoAudit]
    /\ calls = [t \in Threads |-> <<>>]
    /\ requests = 0
    /\ notice = "none"
    /\ selection = [t \in Threads |-> NoSelection]
    /\ api = NoCall
    /\ alerts = [id \in AlertIds |-> NoAlert]
    /\ push = [t \in Threads |-> NoPush]

\* run_news_monitor_pipeline: the report's alerts are the ones of found;
\* each is written to alerts/{alert_id}.json with status "pending"
MonitorScan(found) ==
    /\ found # {}
    /\ alerts' = [id \in AlertIds |->
                    IF id \in found THEN [alerts[id] EXCEPT !.status = "pending"]
                    ELSE alerts[id]]
    /\ AlertFrame

\* a run() that raises without writing the alert's status
AlertErrorUnrecorded(id) ==
    /\ alerts[id].threads > 0
    /\ alerts' = [alerts EXCEPT ![id].threads = @ - 1]
    /\ AlertFrame

\* GET /generate-alert/<alert_id>, up to the checks: 404 without the file, a
\* notice when the status read from the file is generating or drafted;
\* otherwise the request has passed the checks. The dashboard's server
\* handles requests on threads of their own, and nothing is locked between
\* the read and the write of MarkGenerating.
generate_alert(id) ==
    /\ alerts[id].passed + alerts[id].threads < MaxAlertThreads
    /\ alerts' = IF alerts[id].status \in {"absent", "generating", "drafted"}
                 THEN alerts
                 ELSE [alerts EXCEPT ![id].passed = @ + 1]
    /\ AlertFrame

\* generate_alert, after the checks: the status becomes generating and a
\* run() thread is started
MarkGenerating(id) ==
    /\ alerts[id].passed > 0
    /\ alerts' = [alerts EXCEPT ![id].status = "generating",
                                ![id].passed = @ - 1,
                                ![id].threads = @ + 1]
    /\ AlertFrame

\* run(): run_custom_pipeline returned, the status becomes drafted
AlertDrafted(id) ==
    /\ alerts[id].threads > 0
    /\ alerts' = [alerts EXCEPT ![id].status = "drafted",
                                ![id].threads = @ - 1]
    /\ AlertFrame

\* run(): run_custom_pipeline raised, the status becomes error
AlertError(id) ==
    /\ alerts[id].threads > 0
    /\ alerts' = [alerts EXCEPT ![id].status = "error",
                                ![id].threads = @ - 1]
    /\ AlertFrame

AlertNext ==
    \/ \E found \in SUBSET AlertIds : MonitorScan(found)
    \/ \E id \in AlertIds : generate_alert(id)
    \/ \E id \in AlertIds : MarkGenerating(id)
    \/ \E id \in AlertIds : AlertDrafted(id)
    \/ \E id \in AlertIds : AlertError(id)

AlertSpec == AlertInit /\ [][AlertNext]_vars

\* the run() threads keep running and their calls return: a thread at work
\* on an alert ends, by one of its two writes of the status
AlertFairSpec ==
    AlertSpec /\ \A id \in AlertIds : WF_vars(AlertDrafted(id) \/ AlertError(id))

\* C35: a request to generate an alert whose status is generating or
\* drafted starts no run, and an alert never has two runs at work, however
\* the requests for it are interleaved.
C35_OneRunPerAlert ==
    [][\A id \in AlertIds :
         /\ alerts'[id].threads > alerts[id].threads
            => alerts[id].status \notin {"generating", "drafted"}
         /\ alerts'[id].threads <= 1]_vars

\* C36: an alert whose status is generating gets the status drafted or
\* error: the run that returns writes drafted, the run that raises writes
\* error, and every run ends.
C36_GeneratingEnds ==
    /\ [][\A id \in AlertIds :
            /\ AlertDrafted(id) => alerts'[id].status = "drafted"
            /\ AlertError(id) => alerts'[id].status = "error"]_vars
    /\ \A id \in AlertIds :
         alerts[id].status = "generating"
         ~> alerts[id].status \in {"drafted", "error"}

\* the runs of two alerts have ended, one drafted and one in error
C36_DraftedAndError ==
    /\ \E id \in AlertIds : alerts[id].status = "drafted"
    /\ \E id \in AlertIds : alerts[id].status = "error"
    /\ \A id \in AlertIds : alerts[id].threads = 0 /\ alerts[id].passed = 0

\* C28: an alert's status moves one way, pending, generating, then drafted
\* or error: an alert that has left pending is never pending again, a
\* drafted alert keeps its status, and an alert leaves error only for
\* generating, by a new request to generate it.
C28_AlertStatusOneWay ==
    [][\A id \in AlertIds :
         /\ alerts[id].status \in {"generating", "drafted", "error"}
            => alerts'[id].status # "pending"
         /\ alerts[id].status = "drafted" => alerts'[id].status = "drafted"
         /\ alerts[id].status = "error"
            => alerts'[id].status \in {"error", "generating"}]_vars

-----------------------------------------------------------------------------
(* The review surface on its own: the dashboard is started over the folders *)
(* that earlier runs and requests have left, and handles requests.          *)

\* an audit report left in the drafts folder
LeftAudit == FallbackAudit(<<"prose">>)

\* Files are left by runs and requests in every combination: a document
\* without its audit report (a run that failed in Audit), an audit report,
\* card or sitemap entry without the document (an approve or reject while
\* the run was still at work), an approved document next to a draft.
ReviewInit ==
    /\ pregen = [s \in Slugs |-> NoFile]
    /\ draftDoc \in [Slugs -> {NoFile, GeneratedDoc}]
    /\ draftAudit \in [Slugs -> {NoAudit, LeftAudit}]
    /\ draftCard \in [Slugs -> BOOLEAN]
    /\ draftSitemap = draftCard
    /\ draftSocial = [s \in Slugs |-> FALSE]
    /\ approved \in [Slugs -> {NoFile, GeneratedDoc}]
    /\ remote = [s \in Slugs |-> NoFile]
    /\ approvedEver = {s \in Slugs : approved[s] # NoFile}
    /\ pc = [t \in Threads |-> "idle"]
    /\ slug = [t \in Threads |-> NoSlug]
    /\ html = [t \in Threads |-> NoFile]
    /\ audit = [t \in Threads |-> NoAudit]
    /\ calls = [t \in Threads |-> <<>>]
    /\ requests = 0
    /\ notice = "none"
    /\ selection = [t \in Threads |-> NoSelection]
    /\ api = NoCall
    /\ alerts = [id \in AlertIds |-> NoAlert]
    /\ push = [t \in Threads |-> NoPush]

ReviewNext ==
    \/ \E s \in Slugs, form \in FormHtml : Save(s, form)
    \/ \E s \in Slugs, form \in FormHtml, accepted \in BOOLEAN : Approve(s, form, accepted)
    \/ \E s \in Slugs : Reject(s)
    \/ \E s \in Slugs : Reset(s)

ReviewSpec == ReviewInit /\ [][ReviewNext]_vars

\* slug s has no file in the drafts folder
NoDraftFiles(s) ==
    /\ draftDoc[s] = NoFile /\ draftAudit[s] = NoAudit
    /\ ~draftCard[s] /\ ~draftSitemap[s] /\ ~draftSocial[s]

\* the files of the slugs other than s are as they were
OthersUnchanged(s) ==
    \A o \in Slugs \ {s} :
        /\ draftDoc'[o] = draftDoc[o] /\ draftAudit'[o] = draftAudit[o]
        /\ draftCard'[o] = draftCard[o] /\ draftSitemap'[o] = draftSitemap[o]
        /\ draftSocial'[o] = draftSocial[o] /\ approved'[o] = approved[o]

\* C29: after reset(slug) the slug has no file in the drafts folder and none
\* in the approved folder, the files of the other slugs are unchanged, and
\* slot resolution selects the slug again as soon as the slots before it
\* are generated.
C29_ResetClearsSlot ==
    [][\A s \in Slugs :
         Reset(s)
         => /\ NoDraftFiles(s)' /\ approved'[s] = NoFile
            /\ OthersUnchanged(s)
            /\ s \in CalendarSlugs /\ EarlierSlotsGenerated(s)'
               => get_next_ungenerated_post'.slug = s]_vars

\* a request has cleared the first slot, which the resolver selects, while
\* the other slug keeps its draft and its approved document
C29_SlotClearedOtherKept ==
    /\ requests = 1
    /\ NoDraftFiles(Calendar[1].slug) /\ approved[Calendar[1].slug] = NoFile
    /\ get_next_ungenerated_post = Calendar[1]
    /\ draftDoc[Calendar[2].slug] # NoFile /\ approved[Calendar[2].slug] # NoFile
    /\ draftAudit[Calendar[2].slug] # NoAudit

\* C30: after reject(slug) none of the slug's files is left in the drafts
\* folder, whichever of them existed before; the approved folder, the files
\* of the other slugs and the repository are unchanged.
C30_RejectDiscardsAll ==
    [][\A s \in Slugs :
         Reject(s)
         => /\ NoDraftFiles(s)'
            /\ OthersUnchanged(s)
            /\ approved' = approved /\ remote' = remote]_vars

-----------------------------------------------------------------------------
(* The repository on its own: push_to_github and update_blog_index, each a  *)
(* GET of the path followed by a PUT. A text of the repository is a         *)
(* sequence of tokens; the repository accepts a PUT only with the sha of    *)
(* the file it holds at the path, and without a sha when it holds none.     *)

\* the slugs of the calendar posts that are approved; one is the beginning
\* of another
GithubSlugs == { <<"blog-", "x">>, <<"blog-", "x", "y">> }

\* blog.html
IndexPath == <<"blog.html">>

\* marker = "const articles = ["
Marker == "const articles = ["

\* the GET was not answered with status 200 and a body
Unanswered == <<"<unanswered>">>

\* needle in text, for two texts
Contains(text, needle) ==
    \E k \in 0..(Len(text) - Len(needle)) :
        SubSeq(text, k + 1, k + Len(needle)) = needle

\* the sha of the file that holds content, None (<<>>) without a file
Sha(content) ==
    IF content = NoFile \/ content = Unanswered THEN <<>> ELSE <<"sha">> \o content

\* new_entry, of which the url line is kept
NewEntry(s) == <<"url: ">> \o s \o <<".html">>

\* blog_html[:insert_pos] + new_entry + blog_html[insert_pos:]
UpdatedHtml(blog_html, s) ==
    LET idx == CHOOSE k \in 1..Len(blog_html) : blog_html[k] = Marker
    IN SubSeq(blog_html, 1, idx) \o NewEntry(s)
       \o SubSeq(blog_html, idx + 1, Len(blog_html))

GithubInit ==
    /\ pregen = [s \in Slugs |-> NoFile]
    /\ draftDoc = [s \in Slugs |-> NoFile]
    /\ draftAudit = [s \in Slugs |-> NoAudit]
    /\ draftCard = [s \in Slugs |-> FALSE]
    /\ draftSitemap = [s \in Slugs |-> FALSE]
    /\ draftSocial = [s \in Slugs |-> FALSE]
    /\ approved = [s \in Slugs |-> NoFile]
    /\ remote = [path \in GithubSlugs \cup {IndexPath} |->
                   IF path = IndexPath THEN <<Marker, "]">> ELSE NoFile]
    /\ approvedEver = {}
    /\ pc = [t \in Threads |-> "idle"]
    /\ slug = [t \in Threads |-> NoSlug]
    /\ html = [t \in Threads |-> NoFile]
    /\ audit = [t \in Threads |-> NoAudit]
    /\ calls = [t \in Threads |-> <<>>]
    /\ requests = 0
    /\ notice = "none"
    /\ selection = [t \in Threads |-> NoSelection]
    /\ api = NoCall
    /\ alerts = [id \in AlertIds |-> NoAlert]
    /\ push = [t \in Threads |-> NoPush]

GithubFrame ==
    UNCHANGED <<pregen, stores, approvedEver, locals, requests, notice, api,
                selection, alerts>>

\* push_to_github without the sha of the file that exists
PushGetNoSha(t, s, content, answered) ==
    /\ push[t].phase = "idle"
    /\ push' = [push EXCEPT ![t] =
                  [phase |-> "put", path |-> s, content |-> content,
                   seen |-> Unanswered, result |-> FALSE]]
    /\ UNCHANGED remote
    /\ GithubFrame

\* push_to_github(filename, content) up to its PUT: the GET of the path,
\* which gives the file's sha when it is answered with status 200
PushGet(t, s, content, answered) ==
    /\ push[t].phase = "idle"
    /\ push' = [push EXCEPT ![t] =
                  [phase |-> "put", path |-> s, content |-> content,
                   seen |-> IF answered THEN remote[s] ELSE Unanswered,
                   result |-> FALSE]]
    /\ UNCHANGED remote
    /\ GithubFrame

\* the PUT of push_to_github or of update_blog_index, with the sha of the
\* file seen, and the value returned: True on status 200 or 201
Put(t, available) ==
    /\ push[t].phase = "put"
    /\ LET accepted == available /\ Sha(push[t].seen) = Sha(remote[push[t].path])
       IN /\ remote' = IF accepted
                       THEN [remote EXCEPT ![push[t].path] = push[t].content]
                       ELSE remote
          /\ push' = [push EXCEPT ![t].phase = "idle", ![t].result = accepted]
    /\ GithubFrame

\* update_blog_index without the check for the slug in blog_html
update_blog_index_unchecked(t, s, answered) ==
    /\ push[t].phase = "idle"
    /\ LET blog_html == remote[IndexPath]
       IN push' = [push EXCEPT ![t] =
             IF ~answered \/ ~Contains(blog_html, <<Marker>>)
             THEN [NoPush EXCEPT !.path = IndexPath]
             ELSE [phase |-> "put", path |-> IndexPath,
                   content |-> UpdatedHtml(blog_html, s), seen |-> blog_html,
                   result |-> FALSE]]
    /\ UNCHANGED remote
    /\ GithubFrame

\* update_blog_index(post, calendar) up to its PUT: False when blog.html is
\* not fetched or has no marker, True when the slug is in it
update_blog_index(t, s, answered) ==
    /\ push[t].phase = "idle"
    /\ LET blog_html == remote[IndexPath]
       IN push' = [push EXCEPT ![t] =
             IF ~answered
             THEN [NoPush EXCEPT !.path = IndexPath]
             ELSE IF Contains(blog_html, s)
             THEN [NoPush EXCEPT !.path = IndexPath, !.seen = blog_html,
                                 !.result = TRUE]
             ELSE IF ~Contains(blog_html, <<Marker>>)
             THEN [NoPush EXCEPT !.path = IndexPath]
             ELSE [phase |-> "put", path |-> IndexPath,
                   content |-> UpdatedHtml(blog_html, s), seen |-> blog_html,
                   result |-> FALSE]]
    /\ UNCHANGED remote
    /\ GithubFrame

GithubNext ==
    \/ \E t \in Threads, s \in GithubSlugs, content \in {GeneratedDoc, EditedDoc},
          answered \in BOOLEAN : PushGet(t, s, content, answered)
    \/ \E t \in Threads, available \in BOOLEAN : Put(t, available)
    \/ \E t \in Threads, s \in GithubSlugs, answered \in BOOLEAN :
          update_blog_index(t, s, answered)

GithubSpec == GithubInit /\ [][GithubNext]_vars

\* C31: push_to_github is an upsert by path. It returns True exactly when
\* the repository took the content, which is then the file at the path, and
\* leaves the repository as it was otherwise; when the repository answers
\* and nobody else has written the path since the GET, the PUT is accepted
\* whether the file existed (the sha the GET answered is supplied) or not.
C31_PushIsUpsert ==
    [][/\ \A t \in Threads, s \in GithubSlugs, content \in {GeneratedDoc, EditedDoc} :
            PushGet(t, s, content, TRUE)
            => Sha(push'[t].seen) = Sha(remote[s]) /\ remote' = remote
       /\ \A t \in Threads, available \in BOOLEAN :
         Put(t, available) /\ push[t].path # IndexPath
         => LET path == push[t].path
            IN /\ push'[t].result => remote'[path] = push[t].content
               /\ ~push'[t].result => remote' = remote
               /\ available /\ push[t].seen = remote[path] => push'[t].result
               /\ \A o \in DOMAIN remote \ {path} : remote'[o] = remote[o]]_vars

\* a push has replaced the file it had seen at the path by other content
C31_ExistingFileUpdated ==
    \E t \in Threads :
        /\ push[t].phase = "idle" /\ push[t].result
        /\ push[t].path \in GithubSlugs
        /\ push[t].seen \notin {NoFile, Unanswered}
        /\ push[t].seen # push[t].content
        /\ remote[push[t].path] = push[t].content

\* C39: blog.html holds at most one entry per slug. update_blog_index
\* returns True and sends nothing when the slug is in the index, and an
\* accepted update keeps every entry the index had.
C39_OneIndexEntryPerSlug ==
    [][/\ \A s \in GithubSlugs :
            LET blog_html == remote'[IndexPath]
            IN Cardinality({k \in 1..Len(blog_html) :
                              /\ k + Len(NewEntry(s)) - 1 <= Len(blog_html)
                              /\ SubSeq(blog_html, k, k + Len(NewEntry(s)) - 1)
                                 = NewEntry(s)}) <= 1
       /\ \A s \in GithubSlugs :
            Contains(remote[IndexPath], NewEntry(s))
            => Contains(remote'[IndexPath], NewEntry(s))
       /\ \A t \in Threads, s \in GithubSlugs :
            update_blog_index(t, s, TRUE) /\ Contains(remote[IndexPath], NewEntry(s))
            => push'[t].result /\ push'[t].phase = "idle" /\ remote' = remote]_vars

\* both slugs have their entry in the index, the last one added by an
\* accepted update
C39_TwoEntries ==
    /\ \A s \in GithubSlugs : Contains(remote[IndexPath], NewEntry(s))
    /\ \E t \in Threads : /\ push[t].phase = "idle" /\ push[t].result
                          /\ push[t].path = IndexPath
                          /\ push[t].content = remote[IndexPath]

====
